---- MODULE Spec2Model ----
(***************************************************************************)
(* A model of the signal toolkit: the Signal container and its operators   *)
(* (src/src/core/signal.rs), the sample generators and the buffer-fill     *)
(* default method (src/src/core/generator.rs), and the impulse-response    *)
(* example that composes them (src/examples/convolution.rs).               *)
(*                                                                         *)
(* Indices are 0-based as in the source; At(s, i) reads the sample at the  *)
(* 0-based index i of the sequence s.                                      *)
(***************************************************************************)
EXTENDS Integers, Sequences, FiniteSets, TLC

VARIABLES a, b, delay, op, out, checks, gen, fresh, buffer, produced, pc

vars == <<a, b, delay, op, out, checks, gen, fresh, buffer, produced, pc>>

sigVars == <<a, b, delay, op, out, checks>>
genVars == <<gen, fresh, buffer, produced>>

(***************************************************************************)
(* Bounds of the model.                                                    *)
(***************************************************************************)
MaxLenA == 3
MaxLenB == 2
MaxDelay == 4
MaxBuf == 3
MaxProduced == 6
MaxStepPos == 3
MaxRate == 3
MaxFreq == 2
MaxCarrier == 2
MaxImpulseBuf == 3

\* The sample values the operand signals are built from: the zero value,
\* the unit and one more (i32 samples far from the overflow range).
Samples == {0, 1, 2}
Scalars == {-1, 0, 2}

(***************************************************************************)
(* usize arithmetic.  `len() - delay` and `len + len - 1` are usize        *)
(* subtractions: with overflow checks (the debug profile) an underflow     *)
(* panics, without them (the release profile) it wraps modulo 2^bits.      *)
(* The width is kept at 16 bits, the narrowest usize Rust has; nothing     *)
(* below depends on the width beyond 2^bits exceeding every length used.   *)
(***************************************************************************)
UsizeBits == 16
UsizeMod == 2 ^ UsizeBits
\* Vec allocation panics ("capacity overflow") above isize::MAX bytes.
IsizeMax == (UsizeMod \div 2) - 1

Max(x, y) == IF x >= y THEN x ELSE y
Min(x, y) == IF x <= y THEN x ELSE y

At(s, i) == s[i + 1]

\* T::default() of the numeric sample type.
Default == 0

Ok(data) == [status |-> "ok", data |-> data]
Panic == [status |-> "panic", data |-> <<>>]
NoResult == [status |-> "none", data |-> <<>>]

\* x - y on usize: [panic |-> TRUE] under overflow checks, else wrapped.
UsizeSub(x, y, chk) ==
    IF x >= y THEN [panic |-> FALSE, val |-> x - y]
    ELSE IF chk THEN [panic |-> TRUE, val |-> 0]
    ELSE [panic |-> FALSE, val |-> (x - y + UsizeMod) % UsizeMod]

\* Iterator::take(n) over a slice.
Take(s, n) == SubSeq(s, 1, Min(n, Len(s)))

\* vec![Default::default(); len]
VecOfDefault(len) == [k \in 1..len |-> Default]

(***************************************************************************)
(* Signal                                                                  *)
(***************************************************************************)
from_buffer(data) == data

as_slice(self) == self

mull_by_scalar(self, scalar) ==
    Ok(from_buffer([k \in 1..Len(self) |-> At(self, k - 1) * scalar]))

add_delay_tail_kept(self, d, chk) ==
    LET n == UsizeSub(Len(self), d, chk)
    IN  IF n.panic THEN Panic
        ELSE Ok(from_buffer([k \in 1..d |-> Default] \o
                            SubSeq(self, Len(self) - Min(n.val, Len(self)) + 1, Len(self))))

add_delay_grows(self, d, chk) ==
    Ok(from_buffer([k \in 1..d |-> Default] \o self))

add_delay(self, d, chk) ==
    LET n == UsizeSub(Len(self), d, chk)
    IN  IF n.panic THEN Panic
        ELSE Ok(from_buffer([k \in 1..d |-> Default] \o Take(self, n.val)))

add_no_zero_extend(self, rhs) ==
    LET len == Min(Len(self), Len(rhs))
    IN  Ok(from_buffer([k \in 1..len |-> At(self, k - 1) + At(rhs, k - 1)]))

add(self, rhs) ==
    LET len == Max(Len(self), Len(rhs))
        elem(i) ==
            LET x == IF i < Len(self) THEN At(self, i) ELSE Default
                y == IF i < Len(rhs) THEN At(rhs, i) ELSE Default
            IN  x + y
    IN  Ok(from_buffer([k \in 1..len |-> elem(k - 1)]))

\* The nested loops of mul, from (i, j) on: buffer[i + j] += self[i] * rhs[j].
RECURSIVE MulLoop(_, _, _, _, _)
MulLoop(self, rhs, buf, i, j) ==
    IF i >= Len(self) THEN Ok(from_buffer(buf))
    ELSE IF j >= Len(rhs) THEN MulLoop(self, rhs, buf, i + 1, 0)
    ELSE IF i + j >= Len(buf) THEN Panic
    ELSE LET c == At(self, i) * At(rhs, j)
         IN  MulLoop(self, rhs, [buf EXCEPT ![i + j + 1] = buf[i + j + 1] + c],
                     i, j + 1)

RECURSIVE MulLoopOverwrites(_, _, _, _, _)
MulLoopOverwrites(self, rhs, buf, i, j) ==
    IF i >= Len(self) THEN Ok(from_buffer(buf))
    ELSE IF j >= Len(rhs) THEN MulLoopOverwrites(self, rhs, buf, i + 1, 0)
    ELSE IF i + j >= Len(buf) THEN Panic
    ELSE LET c == At(self, i) * At(rhs, j)
         IN  MulLoopOverwrites(self, rhs, [buf EXCEPT ![i + j + 1] = c], i, j + 1)

mul_overwrites(self, rhs, chk) ==
    LET len == UsizeSub(Len(self) + Len(rhs), 1, chk)
    IN  IF len.panic \/ len.val > IsizeMax THEN Panic
        ELSE MulLoopOverwrites(self, rhs, VecOfDefault(len.val), 0, 0)

mul_no_minus_one(self, rhs, chk) ==
    MulLoop(self, rhs, VecOfDefault(Len(self) + Len(rhs)), 0, 0)

mul(self, rhs, chk) ==
    LET len == UsizeSub(Len(self) + Len(rhs), 1, chk)
    IN  IF len.panic \/ len.val > IsizeMax THEN Panic
        ELSE MulLoop(self, rhs, VecOfDefault(len.val), 0, 0)

(***************************************************************************)
(* Generators.  An f32 sample is kept exactly: Val(n, d) is the rational   *)
(* n/d in lowest terms, SinOf(n, d) is sin(2*pi*n/d), NaN is the result of *)
(* dividing by a sample rate of zero.                                      *)
(***************************************************************************)
RECURSIVE GCD(_, _)
GCD(x, y) == IF y = 0 THEN x ELSE GCD(y, x % y)

Val(n, d) == [k |-> "val", num |-> n \div GCD(n, d), den |-> d \div GCD(n, d)]
SinOf(n, d) == [k |-> "sin", num |-> n \div GCD(n, d), den |-> d \div GCD(n, d)]
NaN == [k |-> "nan", num |-> 0, den |-> 0]
Zero == Val(0, 1)
One == Val(1, 1)
\* What a buffer holds before it is filled, when it is not zeroed.
Stale == [k |-> "stale", num |-> 0, den |-> 0]

Some(x) == [some |-> TRUE, val |-> x]
None == [some |-> FALSE, val |-> NaN]

Impulse_new ==
    [kind |-> "impulse", impulse_sent |-> FALSE, step_pos |-> 0,
     freq |-> 0, sample_rate |-> 0]

Step_new(p) ==
    [kind |-> "step", impulse_sent |-> FALSE, step_pos |-> p,
     freq |-> 0, sample_rate |-> 0]

Sine_new(f, r) ==
    [kind |-> "sine", impulse_sent |-> FALSE, step_pos |-> 0,
     freq |-> f, sample_rate |-> r]

Sawtooth_new(f, r) ==
    [kind |-> "sawtooth", impulse_sent |-> FALSE, step_pos |-> 0,
     freq |-> f, sample_rate |-> r]

Square_new(f, r) ==
    [kind |-> "square", impulse_sent |-> FALSE, step_pos |-> 0,
     freq |-> f, sample_rate |-> r]

Impulse_next_never_sent(g) ==
    [gen |-> g, item |-> Some(IF g.impulse_sent THEN Zero ELSE One)]

Impulse_next(g) ==
    IF g.impulse_sent
    THEN [gen |-> g, item |-> Some(Zero)]
    ELSE [gen |-> [g EXCEPT !.impulse_sent = TRUE], item |-> Some(One)]

Step_next_one_early(g) ==
    IF g.step_pos > 1
    THEN [gen |-> [g EXCEPT !.step_pos = g.step_pos - 1], item |-> Some(Zero)]
    ELSE [gen |-> [g EXCEPT !.step_pos = 0], item |-> Some(One)]

Step_next(g) ==
    IF g.step_pos > 0
    THEN [gen |-> [g EXCEPT !.step_pos = g.step_pos - 1], item |-> Some(Zero)]
    ELSE [gen |-> g, item |-> Some(One)]

\* t = step_pos / sample_rate; the sample is sin(t * freq * 2 * PI).
Sine_next(g) ==
    [gen |-> [g EXCEPT !.step_pos = g.step_pos + 1],
     item |-> Some(IF g.sample_rate = 0 THEN NaN
                   ELSE SinOf(g.step_pos * g.freq, g.sample_rate))]

\* The position after a Sawtooth or Square pull: it wraps at sample_rate.
WrapPos(g) ==
    IF g.step_pos + 1 >= g.sample_rate THEN 0 ELSE g.step_pos + 1

\* (t * freq).fract() for t = step_pos / sample_rate, never negative, or NaN.
Fract(g) ==
    IF g.sample_rate = 0 THEN NaN
    ELSE Val((g.step_pos * g.freq) % g.sample_rate, g.sample_rate)

Sawtooth_next(g) ==
    [gen |-> [g EXCEPT !.step_pos = WrapPos(g)], item |-> Some(Fract(g))]

\* fract < 0.5 is false for NaN.
Square_next(g) ==
    [gen |-> [g EXCEPT !.step_pos = WrapPos(g)],
     item |-> Some(IF Fract(g).k = "val" /\ 2 * Fract(g).num < Fract(g).den
                   THEN Zero ELSE One)]

\* Iterator::next, dispatched on the generator's type.
next(g) ==
    CASE g.kind = "impulse" -> Impulse_next(g)
      [] g.kind = "step" -> Step_next(g)
      [] g.kind = "sine" -> Sine_next(g)
      [] g.kind = "sawtooth" -> Sawtooth_next(g)
      [] g.kind = "square" -> Square_next(g)

\* The loop of write_buffer from the 0-based position i on; unwrap panics
\* on None.
RECURSIVE WriteLoop(_, _, _)
WriteLoop(g, buf, i) ==
    IF i >= Len(buf) THEN [gen |-> g, buffer |-> buf, panicked |-> FALSE]
    ELSE LET r == next(g)
         IN  IF ~r.item.some
             THEN [gen |-> r.gen, buffer |-> buf, panicked |-> TRUE]
             ELSE WriteLoop(r.gen, [buf EXCEPT ![i + 1] = r.item.val], i + 1)

write_buffer_skips_first(g, buf) == WriteLoop(g, buf, 1)

write_buffer(g, buf) == WriteLoop(g, buf, 0)

(***************************************************************************)
(* The Signal operations as a state machine.  Init is the state after two  *)
(* signals were constructed with from_buffer; add_delay and mull_by_scalar *)
(* borrow their receiver, add and mul take both operands by value, after   *)
(* which they are gone; a panic ends the run.                              *)
(***************************************************************************)
SeqsUpTo(S, n) == UNION {[1..m -> S] : m \in 0..n}

GenIdle == [kind |-> "none", impulse_sent |-> FALSE, step_pos |-> 0,
            freq |-> 0, sample_rate |-> 0]

GenPartIdle ==
    /\ gen = GenIdle
    /\ fresh = GenIdle
    /\ buffer = <<>>
    /\ produced = <<>>

Init ==
    /\ a \in {from_buffer(data) : data \in SeqsUpTo(Samples, MaxLenA)}
    /\ b \in {from_buffer(data) : data \in SeqsUpTo(Samples, MaxLenB)}
    /\ checks \in BOOLEAN
    /\ delay = 0
    /\ op = "none"
    /\ out = NoResult
    /\ pc = "signal"
    /\ GenPartIdle

Alive == op \notin {"add", "mul"} /\ out.status # "panic"

AddDelay(d) ==
    /\ Alive
    /\ op' = "add_delay"
    /\ delay' = d
    /\ out' = add_delay(a, d, checks)
    /\ UNCHANGED <<a, b, checks, pc, genVars>>

MullByScalar(scalar) ==
    /\ Alive
    /\ op' = "mull_by_scalar"
    /\ out' = mull_by_scalar(a, scalar)
    /\ UNCHANGED <<a, b, delay, checks, pc, genVars>>

Add ==
    /\ Alive
    /\ op' = "add"
    /\ out' = add(a, b)
    /\ UNCHANGED <<a, b, delay, checks, pc, genVars>>

Mul ==
    /\ Alive
    /\ op' = "mul"
    /\ out' = mul(a, b, checks)
    /\ UNCHANGED <<a, b, delay, checks, pc, genVars>>

Next ==
    \/ \E d \in 0..MaxDelay : AddDelay(d)
    \/ \E scalar \in Scalars : MullByScalar(scalar)
    \/ Add
    \/ Mul

Spec == Init /\ [][Next]_vars

(***************************************************************************)
(* Claims about the Signal operators, checked under Spec.                  *)
(***************************************************************************)
\* The direct-sum definition of convolution at the 0-based index k: the sum
\* of x[i] * y[k - i] over the i with both indices in range.
RECURSIVE DirectSum(_, _, _, _)
DirectSum(x, y, k, i) ==
    IF i >= Len(x) THEN 0
    ELSE (IF k - i >= 0 /\ k - i < Len(y) THEN At(x, i) * At(y, k - i) ELSE 0)
         + DirectSum(x, y, k, i + 1)

\* C1: for non-empty a and b, a * b returns a signal of length
\* len(a) + len(b) - 1 whose sample at every index k is the sum of
\* a[i] * b[j] over the pairs with i + j = k.
C1_ConvolveDirectSum ==
    (op = "mul" /\ Len(a) >= 1 /\ Len(b) >= 1) =>
        /\ out.status = "ok"
        /\ Len(as_slice(out.data)) = Len(a) + Len(b) - 1
        /\ \A k \in 0..(Len(a) + Len(b) - 2) :
               At(as_slice(out.data), k) = DirectSum(a, b, k, 0)

C1_Witness ==
    /\ op = "mul"
    /\ a = <<1, 2, 2>>
    /\ b = <<2, 1>>
    /\ out = Ok(<<2, 5, 6, 2>>)

\* C2: for 0 <= d <= len(x), add_delay(x, d) returns len(x) samples: zero at
\* every index below d, x[i - d] at every index from d on.
C2_DelayShifts ==
    (op = "add_delay" /\ delay <= Len(a)) =>
        /\ out.status = "ok"
        /\ Len(as_slice(out.data)) = Len(a)
        /\ \A i \in 0..(Len(a) - 1) :
               At(as_slice(out.data), i) = IF i < delay THEN 0 ELSE At(a, i - delay)

C2_Witness ==
    /\ op = "add_delay"
    /\ delay = 2
    /\ a = <<1, 2, 2>>
    /\ out = Ok(<<0, 0, 1>>)

ZeroExt(s, i) == IF i < Len(s) THEN At(s, i) ELSE 0

\* C3: a + b has length max(len(a), len(b)), its sample at i is a[i] + b[i]
\* with a missing sample counted as zero, and it equals b + a.
C3_AddZeroExtends ==
    (op = "add") =>
        /\ out.status = "ok"
        /\ Len(as_slice(out.data)) = Max(Len(a), Len(b))
        /\ \A i \in 0..(Max(Len(a), Len(b)) - 1) :
               At(as_slice(out.data), i) = ZeroExt(a, i) + ZeroExt(b, i)
        /\ out = add(b, a)

C3_Witness ==
    /\ op = "add"
    /\ a = <<1, 2, 2>>
    /\ b = <<2, 1>>
    /\ out = Ok(<<3, 3, 2>>)

\* C4: with an empty operand, a * b yields an empty signal or reports an
\* error; it never returns a non-empty signal.
C4_EmptyConvolve ==
    (op = "mul" /\ (Len(a) = 0 \/ Len(b) = 0)) =>
        (out.status = "panic" \/ Len(as_slice(out.data)) = 0)

\* C5: add_delay(x, d) with d > len(x) reports an error and returns no
\* signal.
C5_DelayBeyondLength ==
    (op = "add_delay" /\ delay > Len(a)) => out.status = "panic"

\* C9: convolving x with the unit signal <<1>>, on either side, returns x.
C9_UnitIdentity ==
    (op = "mul") =>
        /\ (b = <<1>> => out = Ok(a))
        /\ (a = <<1>> => out = Ok(b))

C9_Witness ==
    /\ op = "mul"
    /\ b = <<1>>
    /\ a = <<2, 0, 1>>
    /\ out = Ok(<<2, 0, 1>>)

(***************************************************************************)
(* The generators as a state machine.  Init is a freshly constructed       *)
(* generator of any of the five types; Pull is one call of next, Fill one  *)
(* call of write_buffer on a buffer of any length and previous content.    *)
(* `produced` records every sample handed out, in order; `fresh` keeps the *)
(* generator as constructed.                                               *)
(***************************************************************************)
FreshGenerators ==
    {Impulse_new}
    \cup {Step_new(p) : p \in 0..MaxStepPos}
    \cup {Sine_new(f, r) : f \in 1..MaxFreq, r \in 0..MaxRate}
    \cup {Sawtooth_new(f, r) : f \in 1..MaxFreq, r \in 0..MaxRate}
    \cup {Square_new(f, r) : f \in 1..MaxFreq, r \in 0..MaxRate}

SigPartIdle ==
    /\ a = <<>>
    /\ b = <<>>
    /\ delay = 0
    /\ op = "none"
    /\ out = NoResult
    /\ checks = FALSE

GenInit ==
    /\ gen \in FreshGenerators
    /\ fresh = gen
    /\ buffer = <<>>
    /\ produced = <<>>
    /\ pc = "new"
    /\ SigPartIdle

Pull ==
    /\ pc \in {"new", "pulled", "filled"}
    /\ Len(produced) < MaxProduced
    /\ LET r == next(gen)
       IN  /\ gen' = r.gen
           /\ produced' = IF r.item.some THEN Append(produced, r.item.val)
                          ELSE produced
           /\ pc' = IF r.item.some THEN "pulled" ELSE "exhausted"
    /\ UNCHANGED <<buffer, fresh, sigVars>>

Fill(old) ==
    /\ pc \in {"new", "pulled", "filled"}
    /\ Len(produced) + Len(old) <= MaxProduced
    /\ LET r == write_buffer(gen, old)
       IN  /\ gen' = r.gen
           /\ buffer' = r.buffer
           /\ produced' = IF r.panicked THEN produced ELSE produced \o r.buffer
           /\ pc' = IF r.panicked THEN "panicked" ELSE "filled"
    /\ UNCHANGED <<fresh, sigVars>>

\* The buffers a caller hands to write_buffer: zeroed (vec![0.0; n]) or
\* holding older content.
OldBuffers == UNION {[1..n -> {Zero, Stale}] : n \in 0..MaxBuf}

GenNext ==
    \/ Pull
    \/ \E old \in OldBuffers : Fill(old)

GenSpec == GenInit /\ [][GenNext]_vars

(***************************************************************************)
(* Claims about the generators, checked under GenSpec.                     *)
(***************************************************************************)
\* n sequential pulls from the generator g: the samples in order and the
\* generator afterwards.
RECURSIVE Pulls(_, _)
Pulls(g, n) ==
    IF n = 0 THEN [gen |-> g, samples |-> <<>>]
    ELSE LET before == Pulls(g, n - 1)
             r == next(before.gen)
         IN  [gen |-> r.gen, samples |-> Append(before.samples, r.item.val)]

LastOf(s, n) == SubSeq(s, Len(s) - n + 1, Len(s))

\* C6: a fresh Impulse returns 1.0 on its first pull and 0.0 on every later
\* one, whatever the mix of pulls and fills, and the fired flag, once set,
\* stays set.
C6_ImpulseInv ==
    (fresh.kind = "impulse") =>
        /\ \A i \in 1..Len(produced) : produced[i] = IF i = 1 THEN One ELSE Zero
        /\ gen.impulse_sent = (Len(produced) > 0)

C6_ImpulseOnce ==
    /\ []C6_ImpulseInv
    /\ [][(fresh.kind = "impulse" /\ gen.impulse_sent) => gen'.impulse_sent]_vars

C6_Witness ==
    /\ fresh = Impulse_new
    /\ gen.impulse_sent
    /\ pc = "filled"
    /\ buffer = <<Zero, Zero>>
    /\ produced = <<One, Zero, Zero, Zero, Zero>>

\* C7: a fresh Step(p) yields p samples of 0.0 and then only 1.0: a first
\* fill of length L >= p holds p zeros followed by L - p ones, the countdown
\* never increases, and after a 1.0 every later sample is 1.0.
C7_StepInv ==
    (fresh.kind = "step") =>
        /\ \A i \in 1..Len(produced) :
               produced[i] = IF i <= fresh.step_pos THEN Zero ELSE One
        /\ (pc = "filled" /\ Len(buffer) = Len(produced)
                /\ Len(buffer) >= fresh.step_pos) =>
               buffer = [i \in 1..fresh.step_pos |-> Zero]
                        \o [i \in 1..(Len(buffer) - fresh.step_pos) |-> One]
        /\ \A i \in 1..Len(produced) : \A j \in i..Len(produced) :
               (produced[i] = One) => (produced[j] = One)

C7_StepOnset ==
    /\ []C7_StepInv
    /\ [][(fresh.kind = "step") => gen'.step_pos <= gen.step_pos]_vars

C7_Witness ==
    /\ fresh = Step_new(2)
    /\ pc = "filled"
    /\ buffer = <<Zero, Zero, One>>
    /\ produced = buffer
    /\ gen.step_pos = 0

\* C8: a fill of a buffer of length L is L sequential pulls stored in index
\* order: every position is overwritten, the generator ends where L pulls
\* leave it, no fill fails for want of a sample, and any run of fills and
\* pulls hands out what one fill of the total length would.
C8_FillIsSequentialPulls ==
    /\ pc \notin {"panicked", "exhausted"}
    /\ produced = Pulls(fresh, Len(produced)).samples
    /\ gen = Pulls(fresh, Len(produced)).gen
    /\ (pc = "filled") =>
           /\ buffer = LastOf(produced, Len(buffer))
           /\ \A i \in 1..Len(buffer) : buffer[i] # Stale
    /\ LET whole == write_buffer(fresh, [i \in 1..Len(produced) |-> Stale])
       IN  /\ ~whole.panicked
           /\ whole.buffer = produced
           /\ whole.gen = gen

C8_Witness ==
    /\ fresh = Sawtooth_new(2, 3)
    /\ pc = "filled"
    /\ Len(buffer) = 2
    /\ produced = <<Zero, Val(2, 3), Val(1, 3), Zero, Val(2, 3)>>
    /\ gen.step_pos = 2

(***************************************************************************)
(* The example's pipeline (examples/convolution.rs, main): a carrier       *)
(* signal, an Impulse filled into a zeroed buffer, the buffer wrapped in a *)
(* Signal and delayed, and the carrier convolved with the delayed impulse. *)
(* The carrier is any non-empty signal; a holds it, b the delayed impulse, *)
(* out the convolution.                                                    *)
(***************************************************************************)
\* The number an f32 sample holds, for the whole numbers 0.0 and 1.0 that
\* the Impulse emits.
ExactValue(s) == s.num \div s.den

PipeInit ==
    /\ a \in {from_buffer(data) : data \in SeqsUpTo(Samples, MaxCarrier)} \ {<<>>}
    /\ gen = Impulse_new
    /\ fresh = gen
    /\ buffer \in {[i \in 1..n |-> Zero] : n \in 1..MaxImpulseBuf}
    /\ produced = <<>>
    /\ checks \in BOOLEAN
    /\ b = <<>>
    /\ delay = 0
    /\ op = "none"
    /\ out = NoResult
    /\ pc = "start"

PipeFill ==
    /\ pc = "start"
    /\ LET r == write_buffer(gen, buffer)
       IN  /\ gen' = r.gen
           /\ buffer' = r.buffer
           /\ produced' = r.buffer
           /\ pc' = IF r.panicked THEN "panicked" ELSE "filled"
    /\ UNCHANGED <<a, b, delay, op, out, checks, fresh>>

PipeDelay(d) ==
    /\ pc = "filled"
    /\ LET impulse_signal == from_buffer([i \in 1..Len(buffer) |-> ExactValue(buffer[i])])
           delayed == add_delay(impulse_signal, d, checks)
       IN  /\ b' = delayed.data
           /\ pc' = IF delayed.status = "ok" THEN "delayed" ELSE "panicked"
    /\ delay' = d
    /\ op' = "add_delay"
    /\ UNCHANGED <<a, out, checks, genVars>>

PipeConvolve ==
    /\ pc = "delayed"
    /\ out' = mul(a, b, checks)
    /\ op' = "mul"
    /\ pc' = "done"
    /\ UNCHANGED <<a, b, delay, checks, genVars>>

PipeNext ==
    \/ PipeFill
    \/ \E d \in 0..Len(buffer) : PipeDelay(d)
    \/ PipeConvolve

PipeSpec == PipeInit /\ [][PipeNext]_vars

\* C10: with h the delay by d (0 <= d < L) of an Impulse filled into a
\* buffer of length L, x * h has length len(x) + L - 1, holds x[k - d] at
\* every index k with d <= k < d + len(x) and zero elsewhere; for d = L it
\* is zero everywhere.
C10_ImpulseResponseShift ==
    (pc = "done") =>
        /\ out.status = "ok"
        /\ Len(as_slice(out.data)) = Len(a) + Len(buffer) - 1
        /\ \A k \in 0..(Len(a) + Len(buffer) - 2) :
               At(as_slice(out.data), k) =
                   IF delay < Len(buffer) /\ delay <= k /\ k < delay + Len(a)
                   THEN At(a, k - delay) ELSE 0

C10_Witness ==
    /\ pc = "done"
    /\ a = <<2, 1>>
    /\ Len(buffer) = 3
    /\ delay = 2
    /\ b = <<0, 0, 1>>
    /\ out = Ok(<<0, 0, 2, 1>>)

====
